---- MODULE Spec2Model ----
(***************************************************************************)
(* Model of src/app.py: the /optimize_route handler, create_data_model and *)
(* solve_vrp.  One behaviour is one request/response cycle of the handler. *)
(*                                                                         *)
(* A request record is [coordinates, pickup, delivery].  A timestamp field *)
(* is [kind, secs]: kind "ok" is an ISO string that                        *)
(* datetime.fromisoformat(value[:-1]) parses, secs is then                 *)
(* (parsed - datetime(1970,1,1)).total_seconds(); kind "missing" is a      *)
(* record without the key; kind "garbage" is the string 'garbage'.  A      *)
(* coordinates field is [kind, lat, lng]: kind "ok" has integer lat and    *)
(* lng, "missing" is a record without the key, "text" is                   *)
(* {'lat': 'a', 'lng': 0}.                                                 *)
(*                                                                         *)
(* The OR-Tools objects are modelled by their contract: a cumul variable   *)
(* is an integer range, SetRange narrows it or fails without changing it,  *)
(* AddPickupAndDelivery posts "pickup before delivery on the route", and   *)
(* SolveWithParameters returns some route that satisfies everything that   *)
(* was posted, or nothing when no such route exists (the instances are a   *)
(* few nodes, far inside the 30 s limit of line 126).                      *)
(*                                                                         *)
(* Inputs are limited to timestamps whose window bounds                    *)
(* datetime.fromtimestamp accepts (lines 99-100; a date at the end of year *)
(* 9999 would make it raise into the except of lines 108-110), and to      *)
(* coordinates whose distances are whole numbers, so that the float of     *)
(* calculate_distance and the integer transit of the solver agree.         *)
(***************************************************************************)
EXTENDS Integers, Sequences, FiniteSets, TLC

VARIABLES requests, pc, data, built, cumul_range, range_errors,
          constraints, solution, plan_output, fault, response

vars == <<requests, pc, data, built, cumul_range, range_errors,
          constraints, solution, plan_output, fault, response>>

(* ---------------------------- bounds ----------------------------------- *)

\* longest list of well-formed requests
MaxReq == 3

\* longest list that may hold malformed records
MaxBadLen == 2

(* ----------------------- program constants ----------------------------- *)

\* "1 hour before" / "1 hour after"
WindowSlack == 3600

\* AddDimension: slack_max, "allow larger waiting time"
MaxWaiting == 100000

\* AddDimension: capacity, "maximum time per vehicle"
Horizon == 100000

num_vehicles == 1

(* --------------------------- inputs ------------------------------------ *)

\* 1970-01-01T00:00:00Z, 1970-01-01T13:53:20Z, 2023-11-14T22:13:20Z
Timestamps == {0, 50000, 1700000000}

\* two locations at distance 5
Locations == {[lat |-> 0, lng |-> 0], [lat |-> 3, lng |-> 4]}

GoodTime == {[kind |-> "ok", secs |-> t] : t \in Timestamps}

\* no 'pickup' / 'delivery' key
MissingTime == [kind |-> "missing", secs |-> 0]

\* the string 'garbage'
GarbageTime == [kind |-> "garbage", secs |-> 0]

GoodCoord == {[kind |-> "ok", lat |-> l.lat, lng |-> l.lng] : l \in Locations}

\* no 'coordinates' key
MissingCoord == [kind |-> "missing", lat |-> 0, lng |-> 0]

\* {'lat': 'a', 'lng': 0}
TextCoord == [kind |-> "text", lat |-> 0, lng |-> 0]

GoodRequest == [coordinates : GoodCoord, pickup : GoodTime, delivery : GoodTime]

\* records that may be malformed; their well-formed fields take one value
AnyRequest ==
    [coordinates : {[kind |-> "ok", lat |-> 0, lng |-> 0], MissingCoord, TextCoord},
     pickup : {[kind |-> "ok", secs |-> 50000], MissingTime, GarbageTime},
     delivery : {[kind |-> "ok", secs |-> 50000], MissingTime, GarbageTime}]

\* request lists are indexed from 0, as in the source
Lists(S, n) == [0..(n - 1) -> S]

Inputs == (UNION {Lists(GoodRequest, n) : n \in 0..MaxReq})
          \cup (UNION {Lists(AnyRequest, n) : n \in 0..MaxBadLen})

(* --------------------------- helpers ----------------------------------- *)

Len0(f) == Cardinality(DOMAIN f)

Max(a, b) == IF a >= b THEN a ELSE b

Min(a, b) == IF a <= b THEN a ELSE b

\* math.sqrt, exact on the squares the inputs produce
Sqrt(x) == CHOOSE r \in 0..x : r * r <= x /\ x < (r + 1) * (r + 1)

calculate_distance(coord1, coord2) ==
    Sqrt((coord1.lat - coord2.lat) * (coord1.lat - coord2.lat)
         + (coord1.lng - coord2.lng) * (coord1.lng - coord2.lng))

Ok(field) == field.kind = "ok"

WellFormed(r) == Ok(r.coordinates) /\ Ok(r.pickup) /\ Ok(r.delivery)

(* ----------------------- create_data_model ----------------------------- *)

\* KeyError of request['coordinates'] (line 23)
MissingCoordMsg == "'coordinates'"

\* TypeError of coord1['lat'] - coord2['lat'] (line 18); the first failing
\* call of line 24 is in the row of requests[0], against itself when its
\* lat is the string, else against the first record whose lat is
TextCoordMsg(reqs) ==
    IF reqs[0].coordinates.kind = "text"
    THEN "unsupported operand type(s) for -: 'str' and 'str'"
    ELSE "unsupported operand type(s) for -: 'int' and 'str'"

\* KeyError of request['pickup'] / request['delivery'], ValueError of
\* fromisoformat on the value cut by [:-1] (lines 29-30)
TimeMsg(field, key) ==
    IF field.kind = "missing" THEN key ELSE "Invalid isoformat string: 'garbag'"

\* ValueError of min() (line 40)
EmptyMsg == "min() arg is an empty sequence"

FirstBadTime(reqs, check_delivery) ==
    CHOOSE i \in DOMAIN reqs :
        /\ ~Ok(reqs[i].pickup) \/ (check_delivery /\ ~Ok(reqs[i].delivery))
        /\ \A j \in DOMAIN reqs :
             j < i => Ok(reqs[j].pickup) /\ (check_delivery => Ok(reqs[j].delivery))

LoopError(reqs, check_delivery) ==
    LET r == reqs[FirstBadTime(reqs, check_delivery)]
    IN IF ~Ok(r.pickup) THEN TimeMsg(r.pickup, "'pickup'")
       ELSE TimeMsg(r.delivery, "'delivery'")

CreateErrorDeliveryUnparsed(reqs) ==
    IF \E i \in DOMAIN reqs : reqs[i].coordinates.kind = "missing"
    THEN MissingCoordMsg
    ELSE IF \E i \in DOMAIN reqs : reqs[i].coordinates.kind = "text"
    THEN TextCoordMsg(reqs)
    ELSE IF \E i \in DOMAIN reqs : ~Ok(reqs[i].pickup)
    THEN LoopError(reqs, FALSE)
    ELSE IF Len0(reqs) = 0 THEN EmptyMsg
    ELSE ""

\* str(e) of the exception create_data_model raises on reqs, "" when it
\* returns: line 23 reads every 'coordinates', line 24 subtracts the lats
\* row by row, lines 28-34 parse pickup then delivery request by request,
\* line 40 takes min() over the indices.
CreateError(reqs) ==
    IF \E i \in DOMAIN reqs : reqs[i].coordinates.kind = "missing"
    THEN MissingCoordMsg
    ELSE IF \E i \in DOMAIN reqs : reqs[i].coordinates.kind = "text"
    THEN TextCoordMsg(reqs)
    ELSE IF \E i \in DOMAIN reqs : ~Ok(reqs[i].pickup) \/ ~Ok(reqs[i].delivery)
    THEN LoopError(reqs, TRUE)
    ELSE IF Len0(reqs) = 0 THEN EmptyMsg
    ELSE ""

time_window(request) ==
    <<request.pickup.secs - WindowSlack, request.delivery.secs + WindowSlack>>

\* [(i, i + 1) for i in range(0, len(requests), 2)]
pickups_deliveries(n) ==
    [k \in 1..((n + 1) \div 2) |-> <<2 * (k - 1), 2 * (k - 1) + 1>>]

last_earliest_pickup_index(reqs) ==
    CHOOSE i \in DOMAIN reqs :
        \A j \in DOMAIN reqs :
            \/ reqs[i].pickup.secs < reqs[j].pickup.secs
            \/ reqs[i].pickup.secs = reqs[j].pickup.secs /\ i >= j

\* min(range(len(requests)), key=pickup): the first index of the minimum
earliest_pickup_index(reqs) ==
    CHOOSE i \in DOMAIN reqs :
        \A j \in DOMAIN reqs :
            \/ reqs[i].pickup.secs < reqs[j].pickup.secs
            \/ reqs[i].pickup.secs = reqs[j].pickup.secs /\ i <= j

NoData == [distance_matrix |-> <<>>, time_windows |-> <<>>,
           pickups_deliveries |-> <<>>, num_vehicles |-> 0, depot |-> 0]

create_data_model(reqs) ==
    [distance_matrix |->
         [i \in DOMAIN reqs |->
             [j \in DOMAIN reqs |->
                 calculate_distance(reqs[i].coordinates, reqs[j].coordinates)]],
     time_windows |-> [i \in DOMAIN reqs |-> time_window(reqs[i])],
     pickups_deliveries |-> pickups_deliveries(Len0(reqs)),
     num_vehicles |-> num_vehicles,
     depot |-> earliest_pickup_index(reqs)]

(* --------------------------- state ------------------------------------- *)

NoSolution == [route |-> <<>>, cumul_min |-> <<>>, cumul_max |-> <<>>, cost |-> 0]

NoResponse == [status |-> 0, error |-> "", route |-> <<>>]

Init ==
    /\ requests \in Inputs
    /\ pc = "received"
    /\ data = NoData
    /\ built = {}
    /\ cumul_range = <<>>
    /\ range_errors = {}
    /\ constraints = {}
    /\ solution = NoSolution
    /\ plan_output = <<>>
    /\ fault = "none"
    /\ response = NoResponse

(* ------------------- optimize_route / solve_vrp ------------------------ *)

ErrorResponse(msg) == [status |-> 400, error |-> msg, route |-> <<>>]

NoRouteMsg == "No valid route found with the given constraints."

Nodes == DOMAIN requests

\* line 51: create_data_model raises; nothing in solve_vrp catches it, so
\* it reaches the except of optimize_route (lines 158-160).
CreateDataModelRaises ==
    /\ pc = "received"
    /\ CreateError(requests) # ""
    /\ fault' = "malformed"
    /\ response' = ErrorResponse(CreateError(requests))
    /\ pc' = "responded"
    /\ UNCHANGED <<requests, data, built, cumul_range, range_errors,
                   constraints, solution, plan_output>>

\* line 51
CreateDataModel ==
    /\ pc = "received"
    /\ CreateError(requests) = ""
    /\ data' = create_data_model(requests)
    /\ pc' = "manager"
    /\ UNCHANGED <<requests, built, cumul_range, range_errors, constraints,
                   solution, plan_output, fault, response>>

\* lines 54-59: one vehicle, a depot inside 0..n-1: the constructor succeeds
CreateManager ==
    /\ pc = "manager"
    /\ built' = built \cup {"manager"}
    /\ pc' = "routing"
    /\ UNCHANGED <<requests, data, cumul_range, range_errors, constraints,
                   solution, plan_output, fault, response>>

\* lines 61-66
CreateRoutingModel ==
    /\ pc = "routing"
    /\ built' = built \cup {"routing"}
    /\ pc' = "transit"
    /\ UNCHANGED <<requests, data, cumul_range, range_errors, constraints,
                   solution, plan_output, fault, response>>

\* lines 68-79
RegisterTransit ==
    /\ pc = "transit"
    /\ built' = built \cup {"transit"}
    /\ pc' = "dimension"
    /\ UNCHANGED <<requests, data, cumul_range, range_errors, constraints,
                   solution, plan_output, fault, response>>

\* lines 81-93: every cumul variable of the dimension ranges over 0..capacity
AddDimension ==
    /\ pc = "dimension"
    /\ built' = built \cup {"dimension"}
    /\ cumul_range' = [i \in Nodes |-> [lo |-> 0, hi |-> Horizon]]
    /\ pc' = "time_windows"
    /\ UNCHANGED <<requests, data, range_errors, constraints,
                   solution, plan_output, fault, response>>

\* IntVar.SetRange(start, end) outside search: the solver fails, and the
\* Python wrapper raises "CP Solver fail", when the new range is empty or
\* misses the current one; otherwise the range is narrowed.
SetRangeFails(rng, start, end) == start > end \/ start > rng.hi \/ end < rng.lo

SetRange(rng, start, end) ==
    IF SetRangeFails(rng, start, end) THEN rng
    ELSE [lo |-> Max(rng.lo, start), hi |-> Min(rng.hi, end)]

\* lines 95-110: the inner try (102-106) logs a SetRange error and goes on
SetTimeWindows ==
    /\ pc = "time_windows"
    /\ cumul_range' =
         [i \in Nodes |-> SetRange(cumul_range[i], data.time_windows[i][1],
                                   data.time_windows[i][2])]
    /\ range_errors' =
         {i \in Nodes : SetRangeFails(cumul_range[i], data.time_windows[i][1],
                                      data.time_windows[i][2])}
    /\ pc' = "constraints"
    /\ UNCHANGED <<requests, data, built, constraints,
                   solution, plan_output, fault, response>>

PairSet(pairs) == {pairs[k] : k \in DOMAIN pairs}

InRange(pair) == pair[1] \in Nodes /\ pair[2] \in Nodes

\* lines 112-119: every pair names two nodes
AddConstraints ==
    /\ pc = "constraints"
    /\ \A pair \in PairSet(data.pickups_deliveries) : InRange(pair)
    /\ constraints' = PairSet(data.pickups_deliveries)
    /\ pc' = "solve"
    /\ UNCHANGED <<requests, data, built, cumul_range, range_errors,
                   solution, plan_output, fault, response>>

\* lines 114-118 with a pair whose delivery is len(requests):
\* manager.NodeToIndex reads past the end of its table (unchecked in the
\* release build), so the index handed to AddPickupAndDelivery, VehicleVar
\* and CumulVar is whatever the memory holds.  The outcomes:
\*   the process aborts (a CHECK on the index, or a bad access);
AddConstraintsCrash ==
    /\ pc = "constraints"
    /\ \E pair \in PairSet(data.pickups_deliveries) : ~InRange(pair)
    /\ fault' = "crash"
    /\ pc' = "crashed"
    /\ UNCHANGED <<requests, data, built, cumul_range, range_errors,
                   constraints, solution, plan_output, response>>

\*   a wrapper call raises, the except of lines 120-122 returns [];
AddConstraintsRaise ==
    /\ pc = "constraints"
    /\ \E pair \in PairSet(data.pickups_deliveries) : ~InRange(pair)
    /\ fault' = "construction"
    /\ plan_output' = <<>>
    /\ pc' = "returned"
    /\ UNCHANGED <<requests, data, built, cumul_range, range_errors,
                   constraints, solution, response>>

\*   the value read is the index of a node k, and the constraints are
\*   posted between the pickup and k (a pair of a node with itself is
\*   either enforced, and unsatisfiable, or without effect).
AddConstraintsGarbage ==
    /\ pc = "constraints"
    /\ \E pair \in PairSet(data.pickups_deliveries) :
         /\ ~InRange(pair)
         /\ \E k \in Nodes, enforced \in BOOLEAN :
              /\ k # pair[1] => enforced
              /\ constraints' =
                   {q \in PairSet(data.pickups_deliveries) : InRange(q)}
                   \cup (IF enforced THEN {<<pair[1], k>>} ELSE {})
    /\ pc' = "solve"
    /\ UNCHANGED <<requests, data, built, cumul_range, range_errors,
                   solution, plan_output, fault, response>>

(* ------------------------- the search ---------------------------------- *)

Injective(f) == \A a, b \in DOMAIN f : f[a] = f[b] => a = b

\* a route visits every node once, the depot first (no node is optional:
\* the code adds no disjunction); the vehicle then returns to the depot
Routes == {r \in [1..Len0(requests) -> Nodes] : Injective(r) /\ r[1] = data.depot}

Pos(route, node) == CHOOSE k \in DOMAIN route : route[k] = node

\* distance_callback (lines 68-71)
Transit(from_node, to_node) == data.distance_matrix[from_node][to_node]

SetMax(S) == CHOOSE x \in S : \A y \in S : y <= x

SetMin(S) == CHOOSE x \in S : \A y \in S : x <= y

\* AddPickupAndDelivery (line 116): the pickup is visited before the delivery
Precedes(route, pair) == Pos(route, pair[1]) < Pos(route, pair[2])

\* line 118, CumulVar(pickup) <= CumulVar(delivery): the cumuls never
\* decrease along the route, so a pair whose delivery is visited before its
\* pickup forces every cumul from the delivery to the pickup to be equal.
\* Tied: the k-th visit has the cumul of the visit before it.
Tied(route, k) ==
    \E pair \in constraints :
        Pos(route, pair[2]) < k /\ k <= Pos(route, pair[1])

\* the visits that share the cumul of the k-th visit
Block(route, k) ==
    {j \in DOMAIN route :
        \A m \in DOMAIN route : Min(j, k) < m /\ m <= Max(j, k) => Tied(route, m)}

Reversed(route) ==
    \E pair \in constraints : Pos(route, pair[2]) < Pos(route, pair[1])

\* the range of the k-th visit's cumul: its node's range, cut to the
\* ranges of the visits tied to it (none when no pair is reversed)
RangeLo(route) ==
    IF Reversed(route)
    THEN [k \in DOMAIN route |->
             SetMax({cumul_range[route[j]].lo : j \in Block(route, k)})]
    ELSE [k \in DOMAIN route |-> cumul_range[route[k]].lo]

RangeHi(route) ==
    IF Reversed(route)
    THEN [k \in DOMAIN route |->
             SetMin({cumul_range[route[j]].hi : j \in Block(route, k)})]
    ELSE [k \in DOMAIN route |-> cumul_range[route[k]].hi]

\* line 118 on this route: met by every assignment when the pickup comes
\* first; when the delivery comes first, only with no transit between them
CumulOrdered(route, pair) ==
    \A k \in DOMAIN route :
        Pos(route, pair[2]) < k /\ k <= Pos(route, pair[1])
            => Transit(route[k - 1], route[k]) = 0

\* earliest and latest cumul of the k-th visit: each cumul is the previous
\* one plus the transit plus a waiting time in 0..MaxWaiting, inside the
\* node's range and the ranges of the visits tied to it; the end of the
\* route keeps the range 0..Horizon
Earliest(route) ==
    LET lo == RangeLo(route)
        e[k \in DOMAIN route] ==
            IF k = 1 THEN lo[1]
            ELSE Max(lo[k], e[k - 1] + Transit(route[k - 1], route[k]))
    IN e

Latest(route) ==
    LET n == Len0(requests)
        hi == RangeHi(route)
        l[j \in 0..(n - 1)] ==
            IF j = 0 THEN Min(hi[n], Horizon - Transit(route[n], data.depot))
            ELSE Min(hi[n - j],
                     l[j - 1] - Transit(route[n - j], route[n - j + 1]))
    IN [k \in DOMAIN route |-> l[n - k]]

\* waiting between two visits never has to exceed MaxWaiting
TimeFeasible(route) ==
    LET e == Earliest(route)
        l == Latest(route)
    IN /\ \A k \in DOMAIN route : e[k] <= l[k]
       /\ \A k \in DOMAIN route :
            k > 1 => e[k] - l[k - 1] - Transit(route[k - 1], route[k]) <= MaxWaiting

Satisfies(route) ==
    /\ \A pair \in constraints : Precedes(route, pair)
    /\ \A pair \in constraints : CumulOrdered(route, pair)
    /\ TimeFeasible(route)

RouteCost(route) ==
    LET n == Len0(requests)
        c[k \in DOMAIN route] ==
            IF k = 1 THEN 0 ELSE c[k - 1] + Transit(route[k - 1], route[k])
    IN c[n] + Transit(route[n], data.depot)

\* lines 124-132: the search finds no route
SolveFails ==
    /\ pc = "solve"
    /\ ~\E r \in Routes : Satisfies(r)
    /\ fault' = "infeasible"
    /\ plan_output' = <<>>
    /\ pc' = "returned"
    /\ UNCHANGED <<requests, data, built, cumul_range, range_errors,
                   constraints, solution, response>>

\* line 129: the search returns a route that satisfies what was posted
SolveFinds ==
    /\ pc = "solve"
    /\ \E r \in Routes :
         /\ Satisfies(r)
         /\ solution' = LET e == Earliest(r)
                             l == Latest(r)
                         IN [route |-> r,
                             cumul_min |-> [i \in Nodes |-> e[Pos(r, i)]],
                             cumul_max |-> [i \in Nodes |-> l[Pos(r, i)]],
                             cost |-> RouteCost(r)]
    /\ pc' = "extract"
    /\ UNCHANGED <<requests, data, built, cumul_range, range_errors,
                   constraints, plan_output, fault, response>>

WalkFromSecond(route) ==
    [k \in 1..(Len0(route) - 1) |-> requests[route[k + 1]]]

\* lines 135-140: walk from routing.Start(0) until routing.IsEnd
WalkRoute(route) == [k \in DOMAIN route |-> requests[route[k]]]

\* lines 134-142
ExtractRoute ==
    /\ pc = "extract"
    /\ plan_output' = WalkRoute(solution.route)
    /\ pc' = "returned"
    /\ UNCHANGED <<requests, data, built, cumul_range, range_errors,
                   constraints, solution, fault, response>>

\* lines 154-157
Respond ==
    /\ pc = "returned"
    /\ response' = IF plan_output = <<>> THEN ErrorResponse(NoRouteMsg)
                   ELSE [status |-> 200, error |-> "", route |-> plan_output]
    /\ pc' = "responded"
    /\ UNCHANGED <<requests, data, built, cumul_range, range_errors,
                   constraints, solution, plan_output, fault>>

(* --------------------------- properties -------------------------------- *)

Returned == pc \in {"returned", "responded"}

RouteReturned == Returned /\ plan_output # <<>>

Pairs == PairSet(data.pickups_deliveries)

\* C1: in every non-empty route solve_vrp returns, for every pair of
\* pickups_deliveries the pickup request is at a strictly smaller position
\* than the delivery request and its assigned time is not later.
C1_PickupBeforeDelivery ==
    RouteReturned =>
        \A pair \in Pairs :
            /\ InRange(pair)
            /\ Pos(solution.route, pair[1]) < Pos(solution.route, pair[2])
            /\ solution.cumul_min[pair[1]] <= solution.cumul_min[pair[2]]
            /\ solution.cumul_max[pair[1]] <= solution.cumul_max[pair[2]]

\* C2: in every non-empty route solve_vrp returns, the time assigned to
\* every node lies inside the window create_data_model derived for it.
C2_TimesInsideWindows ==
    RouteReturned =>
        \A i \in Nodes :
            /\ data.time_windows[i][1] <= solution.cumul_min[i]
            /\ solution.cumul_max[i] <= data.time_windows[i][2]

Count(f, x) == Cardinality({k \in DOMAIN f : f[k] = x})

\* out holds every record as often as the input does, and nothing else
IsPermutationOfRequests(out) ==
    /\ DOMAIN out = 1..Len0(requests)
    /\ \A i \in Nodes : Count(out, requests[i]) = Count(requests, requests[i])

\* C3: solve_vrp returns the empty list or a list holding every input
\* request exactly once.
C3_EmptyOrComplete ==
    Returned => plan_output = <<>> \/ IsPermutationOfRequests(plan_output)

C3_Witness ==
    /\ pc = "responded"
    /\ response.status = 200
    /\ Len0(requests) >= 2
    /\ response.route[1] # requests[0]
    /\ response.route[2] = requests[0]

IsFirstEarliestPickup(i) ==
    /\ \A j \in Nodes : requests[i].pickup.secs <= requests[j].pickup.secs
    /\ \A j \in Nodes : j < i => requests[j].pickup.secs > requests[i].pickup.secs

\* C4: the first record of a returned non-empty route is the request with
\* the earliest pickup, the lowest index among those that tie for it.
C4_DepotFirst ==
    RouteReturned =>
        \E i \in Nodes : IsFirstEarliestPickup(i) /\ plan_output[1] = requests[i]

C4_Witness ==
    /\ RouteReturned
    /\ \E i, j \in Nodes :
         /\ i < j
         /\ IsFirstEarliestPickup(i)
         /\ requests[j].pickup.secs = requests[i].pickup.secs
         /\ requests[j] # requests[i]

\* C5: every pair of pickups_deliveries has both indices in
\* 0..len(requests)-1 and no index is in more than one pair.
C5_PairsValid ==
    \A k \in DOMAIN data.pickups_deliveries :
        /\ InRange(data.pickups_deliveries[k])
        /\ \A m \in DOMAIN data.pickups_deliveries :
             m # k => {data.pickups_deliveries[k][1], data.pickups_deliveries[k][2]}
                      \cap {data.pickups_deliveries[m][1], data.pickups_deliveries[m][2]}
                      = {}

Origin == requests[CHOOSE i \in Nodes : IsFirstEarliestPickup(i)].pickup.secs

\* C6: every time window is relative to the earliest pickup timestamp:
\* (pickup - origin - 3600, delivery - origin + 3600).
C6_WindowsRelativeToOrigin ==
    \A i \in DOMAIN data.time_windows :
        data.time_windows[i] =
            <<requests[i].pickup.secs - Origin - 3600,
              requests[i].delivery.secs - Origin + 3600>>

\* C7: a failure while assembling the model is reported as an error that
\* differs from the error a search without result is reported with (the
\* latter is NoRouteMsg, line 156).
C7_FailuresDistinct ==
    pc = "responded" /\ fault = "construction" =>
        response.status = 400 /\ response.error # NoRouteMsg

InfeasibleByWindows ==
    \/ \E pair \in Pairs :
         /\ InRange(pair)
         /\ data.time_windows[pair[2]][2] < data.time_windows[pair[1]][1]
    \/ \E i \in DOMAIN data.time_windows :
         data.time_windows[i][2] < data.time_windows[i][1]

\* C8: when a delivery's latest time is before its pickup's earliest time,
\* or a request's own window is empty, solve_vrp returns the failure result
\* and optimize_route an error.
C8_InfeasibleWindowsRejected ==
    pc = "responded" /\ InfeasibleByWindows =>
        plan_output = <<>> /\ response.status = 400

\* C9: one well-formed request is answered with the one-node route of that
\* request, at total cost zero.
C9_SingleRequest ==
    /\ Len0(requests) = 1
    /\ WellFormed(requests[0])
    /\ pc \in {"returned", "responded", "crashed"}
    => /\ pc # "crashed"
       /\ plan_output = <<requests[0]>>
       /\ solution.cost = 0

Malformed ==
    Len0(requests) = 0 \/ \E i \in Nodes : ~WellFormed(requests[i])

\* C10: for an empty list or a list with a malformed record the handler
\* answers with an error, and no step of solve_vrp after create_data_model
\* runs: no solver object is created.
C10_MalformedBeforeModel ==
    Malformed =>
        /\ built = {}
        /\ pc \in {"received", "responded"}
        /\ pc = "responded" => response.status = 400 /\ response.error # ""

C10_Witness ==
    /\ pc = "responded"
    /\ \E i \in Nodes : ~Ok(requests[i].delivery) /\ Ok(requests[i].pickup)
                        /\ Ok(requests[i].coordinates)
    /\ response.status = 400


Next ==
    \/ CreateDataModelRaises
    \/ CreateDataModel
    \/ CreateManager
    \/ CreateRoutingModel
    \/ RegisterTransit
    \/ AddDimension
    \/ SetTimeWindows
    \/ AddConstraints
    \/ AddConstraintsCrash
    \/ AddConstraintsRaise
    \/ AddConstraintsGarbage
    \/ SolveFails
    \/ SolveFinds
    \/ ExtractRoute
    \/ Respond

Spec == Init /\ [][Next]_vars

(* The same handler on the lists whose every pair names two requests      *)
(* (an even number of well-formed requests, or none): no step reads       *)
(* outside the index table.                                               *)
PairedInputs ==
    UNION {Lists(GoodRequest, n) : n \in {m \in 0..MaxReq : m % 2 = 0}}

InitPaired ==
    /\ requests \in PairedInputs
    /\ pc = "received"
    /\ data = NoData
    /\ built = {}
    /\ cumul_range = <<>>
    /\ range_errors = {}
    /\ constraints = {}
    /\ solution = NoSolution
    /\ plan_output = <<>>
    /\ fault = "none"
    /\ response = NoResponse

NextPaired ==
    \/ CreateDataModelRaises
    \/ CreateDataModel
    \/ CreateManager
    \/ CreateRoutingModel
    \/ RegisterTransit
    \/ AddDimension
    \/ SetTimeWindows
    \/ AddConstraints
    \/ SolveFails
    \/ SolveFinds
    \/ ExtractRoute
    \/ Respond

SpecPaired == InitPaired /\ [][NextPaired]_vars
====
